---------------------------- MODULE Spec2Model ----------------------------
(***************************************************************************)
(* Jan Darpan grievance tracker (src/app.py): the persisted collection     *)
(* grievances.json, the four views of the Streamlit script, the keyword    *)
(* classifier and scorer, and the escalation rule.                         *)
(*                                                                         *)
(* Strings that the code searches, splits, lowercases, formats or parses   *)
(* are sequences of one-character strings, so that `in`, lower(), split(), *)
(* str(date) and strptime are computed and not assumed.                    *)
(***************************************************************************)
EXTENDS Integers, Sequences, FiniteSets, TLC

VARIABLES
    grievances_json,  \* content of the file grievances.json (a sequence of records)
    today,            \* datetime.date.today(), a date [year, month, day]
    choice,           \* the view chosen in the sidebar for the last script run
    notice,           \* the message the last script run showed (st.success /
                      \* warning / info), its placeholders left unfilled
    saved,            \* whether the last script run called save_grievances
    grievances,       \* per session: the module-level list `grievances` of its run
    pc,               \* per session: where its script run stands
    base,             \* per session (history): the collection its run loaded
    change,           \* per session (history): the change its run applied
    saveOrder,        \* (history) the sessions in the order they saved
    grievance,        \* the dict handed to a direct call of auto_escalate
    returned          \* what that call returned ("none" before any call)

vars == << grievances_json, today, choice, notice, saved, grievances, pc,
           base, change, saveOrder, grievance, returned >>

uiVars == << choice, notice, saved >>
sessionVars == << grievances, pc, base, change, saveOrder >>
callVars == << grievance, returned >>

---------------------------------------------------------------------------
(* Bounds of the model *)

\* how many records the collection may hold before submissions stop
MaxRecords == 2
\* how many days the clock advances
MaxDays == 1
\* how many words a scored text has
MaxWords == 2

---------------------------------------------------------------------------
(* Text: str.lower(), `in`, str.split() *)

UpperCase ==
    <<"A", "B", "C", "D", "E", "F", "G", "H", "I", "J", "K", "L", "M", "N", "O", "P", "Q", "R", "S", "T", "U", "V", "W", "X", "Y", "Z">>

LowerCase ==
    <<"a", "b", "c", "d", "e", "f", "g", "h", "i", "j", "k", "l", "m", "n", "o", "p", "q", "r", "s", "t", "u", "v", "w", "x", "y", "z">>

\* each upper-case letter's lower-case form
LowerOf ==
    [c \in { UpperCase[i] : i \in 1..Len(UpperCase) } |->
        LowerCase[CHOOSE i \in 1..Len(UpperCase) : UpperCase[i] = c]]

LowerChar(c) == IF c \in DOMAIN LowerOf THEN LowerOf[c] ELSE c

lower(text) == [i \in 1..Len(text) |-> LowerChar(text[i])]

\* Python's `word in text` on strings
Contains(word, text) ==
    \E i \in 1..(Len(text) - Len(word) + 1) :
        SubSeq(text, i, i + Len(word) - 1) = word

RECURSIVE split(_)
\* str.split(): the maximal runs of non-blank characters, in order
split(text) ==
    IF text = << >> THEN << >>
    ELSE IF Head(text) = " " THEN split(Tail(text))
    ELSE LET rest == split(Tail(text))
         IN  IF Len(text) > 1 /\ text[2] # " "
             THEN << << Head(text) >> \o Head(rest) >> \o Tail(rest)
             ELSE << << Head(text) >> >> \o rest

extract_keywords(text) ==
    SelectSeq(split(lower(text)), LAMBDA word : Len(word) > 4)

---------------------------------------------------------------------------
(* Classifier *)

categories ==
    << [category |-> "Water Supply",
        keywords |-> << <<"w", "a", "t", "e", "r">>,
                      <<"s", "u", "p", "p", "l", "y">>,
                      <<"t", "a", "p">> >>],
       [category |-> "Garbage",
        keywords |-> << <<"g", "a", "r", "b", "a", "g", "e">>,
                      <<"t", "r", "a", "s", "h">>,
                      <<"w", "a", "s", "t", "e">> >>],
       [category |-> "Electricity",
        keywords |-> << <<"e", "l", "e", "c", "t", "r", "i", "c">>,
                      <<"l", "i", "g", "h", "t">>,
                      <<"p", "o", "w", "e", "r">> >>],
       [category |-> "Road Damage",
        keywords |-> << <<"r", "o", "a", "d">>,
                      <<"p", "o", "t", "h", "o", "l", "e">>,
                      <<"c", "r", "a", "c", "k">> >>] >>

RECURSIVE FirstCategory(_, _)
FirstCategory(table, text) ==
    IF table = << >> THEN "Other"
    ELSE IF \E k \in 1..Len(Head(table).keywords) :
                Contains(Head(table).keywords[k], lower(text))
         THEN Head(table).category
         ELSE FirstCategory(Tail(table), text)

categorize_grievance(text) == FirstCategory(categories, text)

---------------------------------------------------------------------------
(* Scorer *)

urgent_keywords ==
    << <<"u", "r", "g", "e", "n", "t">>,
       <<"d", "a", "n", "g", "e", "r">>,
       <<"i", "n", "j", "u", "r", "y">>,
       <<"c", "r", "i", "t", "i", "c", "a", "l">>,
       <<"e", "m", "e", "r", "g", "e", "n", "c", "y">>,
       <<"l", "i", "f", "e", "-", "t", "h", "r", "e", "a", "t", "e", "n", "i", "n", "g">>,
       <<"f", "i", "r", "e">>,
       <<"f", "l", "o", "o", "d">>,
       <<"a", "c", "c", "i", "d", "e", "n", "t">>,
       <<"i", "m", "m", "e", "d", "i", "a", "t", "e">>,
       <<"d", "i", "s", "a", "s", "t", "e", "r">> >>

medium_keywords ==
    << <<"i", "m", "p", "o", "r", "t", "a", "n", "t">>,
       <<"d", "e", "l", "a", "y", "e", "d">>,
       <<"i", "s", "s", "u", "e">>,
       <<"c", "o", "m", "p", "l", "a", "i", "n", "t">>,
       <<"d", "a", "m", "a", "g", "e", "d">>,
       <<"r", "e", "p", "a", "i", "r">>,
       <<"m", "a", "l", "f", "u", "n", "c", "t", "i", "o", "n">>,
       <<"u", "r", "g", "e", "n", "t">>,
       <<"c", "r", "i", "t", "i", "c", "a", "l">>,
       <<"p", "r", "o", "b", "l", "e", "m">> >>

low_keywords ==
    << <<"r", "o", "u", "t", "i", "n", "e">>,
       <<"n", "o", "r", "m", "a", "l">>,
       <<"m", "i", "n", "o", "r">>,
       <<"c", "h", "e", "c", "k", "u", "p">>,
       <<"m", "a", "i", "n", "t", "e", "n", "a", "n", "c", "e">>,
       <<"s", "c", "h", "e", "d", "u", "l", "e", "d">>,
       <<"r", "e", "p", "a", "i", "r">>,
       <<"r", "e", "c", "h", "e", "c", "k">>,
       <<"r", "e", "g", "u", "l", "a", "r">>,
       <<"o", "n", "g", "o", "i", "n", "g">> >>

NotResolved == <<"n", "o", "t", " ", "r", "e", "s", "o", "l", "v", "e", "d">>
Again == <<"a", "g", "a", "i", "n">>

RECURSIVE Tally(_, _, _, _)
\* one `for word in keywords: if word in text.lower(): score += weight` loop
Tally(keywords, text, weight, score) ==
    IF keywords = << >> THEN score
    ELSE Tally(Tail(keywords), text, weight,
               IF Contains(Head(keywords), lower(text))
               THEN score + weight ELSE score)

Min(a, b) == IF a < b THEN a ELSE b

\* mutant: the base score is added after the clamp
grievance_score_BaseAfterClamp(text) ==
    LET s1 == Tally(urgent_keywords, text, 40, 0)
        s2 == Tally(medium_keywords, text, 20, s1)
        s3 == Tally(low_keywords, text, 5, s2)
        s4 == IF Contains(NotResolved, lower(text)) \/ Contains(Again, lower(text))
              THEN s3 + 25 ELSE s3
    IN  Min(s4, 100) + 50

\* mutant: the score starts at 5 instead of 0
grievance_score_StartsAtFive(text) ==
    LET s1 == Tally(urgent_keywords, text, 40, 5)
        s2 == Tally(medium_keywords, text, 20, s1)
        s3 == Tally(low_keywords, text, 5, s2)
        s4 == IF Contains(NotResolved, lower(text)) \/ Contains(Again, lower(text))
              THEN s3 + 25 ELSE s3
    IN  Min(s4 + 50, 100)

grievance_score(text) ==
    LET s1 == Tally(urgent_keywords, text, 40, 0)
        s2 == Tally(medium_keywords, text, 20, s1)
        s3 == Tally(low_keywords, text, 5, s2)
        s4 == IF Contains(NotResolved, lower(text)) \/ Contains(Again, lower(text))
              THEN s3 + 25 ELSE s3
    IN  Min(s4 + 50, 100)

---------------------------------------------------------------------------
(* Dates: datetime.date, str(date), strptime(..., "%Y-%m-%d"), subtraction *)

IsLeap(y) == (y % 4 = 0) /\ ((y % 100 # 0) \/ (y % 400 = 0))

DaysInMonth(y, m) ==
    IF m = 2 THEN (IF IsLeap(y) THEN 29 ELSE 28)
    ELSE IF m \in {4, 6, 9, 11} THEN 30 ELSE 31

DaysBeforeYear(y) ==
    LET p == y - 1 IN p * 365 + (p \div 4) - (p \div 100) + (p \div 400)

RECURSIVE DaysBeforeMonth(_, _)
DaysBeforeMonth(y, m) ==
    IF m = 1 THEN 0 ELSE DaysBeforeMonth(y, m - 1) + DaysInMonth(y, m - 1)

\* date.toordinal()
toordinal(date) ==
    DaysBeforeYear(date.year) + DaysBeforeMonth(date.year, date.month) + date.day

\* (a - b).days
DaysBetween(a, b) == toordinal(a) - toordinal(b)

\* the day after `date` (the clock moving on)
tomorrow(date) ==
    IF date.day < DaysInMonth(date.year, date.month)
    THEN [date EXCEPT !.day = date.day + 1]
    ELSE IF date.month < 12
         THEN [year |-> date.year, month |-> date.month + 1, day |-> 1]
         ELSE [year |-> date.year + 1, month |-> 1, day |-> 1]

\* the day before `date` (the date picker of the form stepping back)
yesterday(date) ==
    IF date.day > 1
    THEN [date EXCEPT !.day = date.day - 1]
    ELSE IF date.month > 1
         THEN [year |-> date.year, month |-> date.month - 1,
               day |-> DaysInMonth(date.year, date.month - 1)]
         ELSE [year |-> date.year - 1, month |-> 12, day |-> 31]

RECURSIVE DaysAgo(_, _)
DaysAgo(date, n) == IF n = 0 THEN date ELSE DaysAgo(yesterday(date), n - 1)

DigitChars == << "0", "1", "2", "3", "4", "5", "6", "7", "8", "9" >>

RECURSIVE Digits(_, _)
\* n in decimal, zero-padded to `width` characters
Digits(n, width) ==
    IF width = 0 THEN << >>
    ELSE Append(Digits(n \div 10, width - 1), DigitChars[(n % 10) + 1])

\* the value of each decimal digit
DigitValue ==
    [c \in { DigitChars[v] : v \in 1..10 } |->
        (CHOOSE v \in 1..10 : DigitChars[v] = c) - 1]

RECURSIVE Number(_)
\* the number a string of decimal digits denotes
Number(s) ==
    IF s = << >> THEN 0
    ELSE 10 * Number(SubSeq(s, 1, Len(s) - 1)) + DigitValue[s[Len(s)]]

\* str(date): "YYYY-MM-DD"
isoformat(date) ==
    Digits(date.year, 4) \o << "-" >> \o Digits(date.month, 2)
        \o << "-" >> \o Digits(date.day, 2)

\* datetime.datetime.strptime(s, "%Y-%m-%d").date()
strptime(s) ==
    [year |-> Number(SubSeq(s, 1, 4)),
     month |-> Number(SubSeq(s, 6, 7)),
     day |-> Number(SubSeq(s, 9, 10))]

---------------------------------------------------------------------------
(* Inputs the model draws from *)

Statuses == {"Pending", "Resolved", "Escalated"}

\* str(uuid.uuid4())[:8]: any of these, a value already in use included
IDs == {"1a2b3c4d", "9f8e7d6c"}

Asha == <<"A", "s", "h", "a">>

\* what "Your Name" may hold (empty included)
Names == { << >>, Asha }

\* what "Describe your grievance" may hold in the record lifecycle (empty included)
TextInputs == { << >>, <<"t", "a", "p", " ", "a", "g", "a", "i", "n">> }

\* the words scored texts are made of: keywords of one list and of two, in
\* lower, mixed and upper case, the two halves of "not resolved", "again", and
\* words no list has
Words ==
    { <<"u", "r", "g", "e", "n", "t">>,
      <<"F", "i", "r", "e">>,
      <<"r", "e", "p", "a", "i", "r">>,
      <<"a", "g", "a", "i", "n">>,
      <<"n", "o", "t">>,
      <<"r", "e", "s", "o", "l", "v", "e", "d">>,
      <<"r", "o", "u", "t", "i", "n", "e">>,
      <<"c", "h", "e", "c", "k", "u", "p">>,
      <<"t", "a", "p">>,
      <<"r", "o", "o", "f">>,
      <<"f", "l", "o", "o", "d">>,
      <<"C", "R", "I", "T", "I", "C", "A", "L">> }

RECURSIVE Joined(_)
\* the texts of exactly n words, joined by single blanks
Joined(n) ==
    IF n = 0 THEN { << >> }
    ELSE IF n = 1 THEN Words
    ELSE { t \o << " " >> \o w : t \in Joined(n - 1), w \in Words }

\* what "Describe your grievance" may hold when the scorer is checked
Texts == UNION { Joined(n) : n \in 0..MaxWords }

AllTexts == TextInputs \cup Texts

\* what the feedback text area may hold
FeedbackInputs == { << >>, <<"t", "h", "a", "n", "k", "s">> }

\* what the track-by-name field may hold: a submitter's name in another case,
\* and a name nobody submitted under
SearchInputs == { <<"a", "s", "h", "a">>, <<"R", "a", "v", "i">> }

\* the day the model starts on: the days before it cross the end of a leap February
StartDate == [year |-> 2024, month |-> 3, day |-> 1]

\* how many days back the submitter sets the date field of the form: not at all
\* (the default, today), or three days
BackDays == {0, 3}

\* the dates the date field of the form may hold
FormDates(now) == { DaysAgo(now, n) : n \in BackDays }

Sessions == {"A", "B"}

None == "None"

---------------------------------------------------------------------------
(* Record store *)

\* load_grievances(): the whole persisted collection ([] when there is no file)
load_grievances == grievances_json

\* mutant: the file is opened for appending and keeps what it held
save_grievances_Appends(stored, gs) == stored \o gs

\* save_grievances(gs): what grievances.json holds afterwards, `stored` being
\* what it held before (open(..., "w") truncates it)
save_grievances(stored, gs) == gs

---------------------------------------------------------------------------
(* Escalation rule *)

\* mutant: three days are enough
auto_escalate_AtThreeDays(g, now) ==
    LET g_date == strptime(g.Date)
    IN  IF g.Status = "Pending" /\ DaysBetween(now, g_date) >= 3
        THEN [grievance |-> [g EXCEPT !.Escalated = "Yes", !.Status = "Escalated"],
              ret |-> TRUE]
        ELSE [grievance |-> g, ret |-> FALSE]

\* auto_escalate(grievance) with today = now: the dict as the call leaves it,
\* and the value returned
auto_escalate(g, now) ==
    LET g_date == strptime(g.Date)
    IN  IF g.Status = "Pending" /\ DaysBetween(now, g_date) > 3
        THEN [grievance |-> [g EXCEPT !.Escalated = "Yes", !.Status = "Escalated"],
              ret |-> TRUE]
        ELSE [grievance |-> g, ret |-> FALSE]

---------------------------------------------------------------------------
(* The script's handlers, as functions of the loaded list *)

\* category, priority and keywords of every text the model submits, computed
\* once per text (the three functions are pure)
Derived ==
    [text \in AllTexts |->
        [category |-> categorize_grievance(text),
         priority |-> grievance_score(text),
         keywords |-> extract_keywords(text)]]

\* the dict appended by a valid submission (nothing uploaded)
NewRecord(grievance_id, name, grievance_text, grievance_date) ==
    [ID |-> grievance_id,
     Name |-> name,
     Text |-> grievance_text,
     Category |-> Derived[grievance_text].category,
     Date |-> isoformat(grievance_date),
     Priority |-> Derived[grievance_text].priority,
     Keywords |-> Derived[grievance_text].keywords,
     Status |-> "Pending",
     Escalated |-> "No",
     Image |-> None,
     Attachment |-> None]

\* mutant: only the name is required
SubmitRun_NameOnly(gs, grievance_id, name, grievance_text, grievance_date) ==
    IF name # << >>
    THEN [grievances |-> Append(gs, NewRecord(grievance_id, name, grievance_text,
                                              grievance_date)),
          saved |-> TRUE,
          notice |-> "Grievance Submitted! Your Reference ID: {grievance_id}"]
    ELSE [grievances |-> gs, saved |-> FALSE,
          notice |-> "Please fill in all fields."]

\* mutant: a submission resolved-sweeps the list (drops the resolved records)
SubmitRun_DropsResolved(gs, grievance_id, name, grievance_text, grievance_date) ==
    IF name # << >> /\ grievance_text # << >>
    THEN [grievances |-> Append(SelectSeq(gs, LAMBDA g : g.Status # "Resolved"),
                                NewRecord(grievance_id, name, grievance_text,
                                          grievance_date)),
          saved |-> TRUE,
          notice |-> "Grievance Submitted! Your Reference ID: {grievance_id}"]
    ELSE [grievances |-> gs, saved |-> FALSE,
          notice |-> "Please fill in all fields."]

\* mutant: a submission also applies the escalation rule to the records loaded
SubmitRun_EscalatesStale(gs, grievance_id, name, grievance_text, grievance_date) ==
    IF name # << >> /\ grievance_text # << >>
    THEN [grievances |->
              Append([i \in 1..Len(gs) |-> auto_escalate(gs[i], today).grievance],
                     NewRecord(grievance_id, name, grievance_text, grievance_date)),
          saved |-> TRUE,
          notice |-> "Grievance Submitted! Your Reference ID: {grievance_id}"]
    ELSE [grievances |-> gs, saved |-> FALSE,
          notice |-> "Please fill in all fields."]

\* "Submit Grievance", `if submitted:`
SubmitRun(gs, grievance_id, name, grievance_text, grievance_date) ==
    IF name # << >> /\ grievance_text # << >>
    THEN [grievances |-> Append(gs, NewRecord(grievance_id, name, grievance_text,
                                              grievance_date)),
          saved |-> TRUE,
          notice |-> "Grievance Submitted! Your Reference ID: {grievance_id}"]
    ELSE [grievances |-> gs, saved |-> FALSE,
          notice |-> "Please fill in all fields."]

\* mutant: resolving a grievance clears its Escalated flag
UpdateRun_ResolveClears(gs, selected_id, new_status, now) ==
    [grievances |->
        [i \in 1..Len(gs) |->
            IF gs[i].ID = selected_id
            THEN IF new_status = "Resolved"
                 THEN [gs[i] EXCEPT !.Status = new_status, !.Escalated = "No"]
                 ELSE auto_escalate([gs[i] EXCEPT !.Status = new_status], now).grievance
            ELSE gs[i]],
     saved |-> TRUE,
     notice |-> "Status updated to {new_status} for ID {selected_id}"]

\* mutant: an update scores the text again, without the base
UpdateRun_Rescores(gs, selected_id, new_status, now) ==
    [grievances |->
        [i \in 1..Len(gs) |->
            IF gs[i].ID = selected_id
            THEN auto_escalate([gs[i] EXCEPT !.Status = new_status,
                                   !.Priority = grievance_score(gs[i].Text) - 50],
                               now).grievance
            ELSE gs[i]],
     saved |-> TRUE,
     notice |-> "Status updated to {new_status} for ID {selected_id}"]

\* mutant: the escalation rule runs before the status is overwritten
UpdateRun_EscalatesFirst(gs, selected_id, new_status, now) ==
    [grievances |->
        [i \in 1..Len(gs) |->
            IF gs[i].ID = selected_id
            THEN [auto_escalate(gs[i], now).grievance EXCEPT !.Status = new_status]
            ELSE gs[i]],
     saved |-> TRUE,
     notice |-> "Status updated to {new_status} for ID {selected_id}"]

\* "Admin Panel", `if st.button("Update Status"):`
UpdateRun(gs, selected_id, new_status, now) ==
    [grievances |->
        [i \in 1..Len(gs) |->
            IF gs[i].ID = selected_id
            THEN auto_escalate([gs[i] EXCEPT !.Status = new_status], now).grievance
            ELSE gs[i]],
     saved |-> TRUE,
     notice |-> "Status updated to {new_status} for ID {selected_id}"]

\* the IDs the "Select Grievance ID" box offers
OfferedIDs(gs) == { gs[i].ID : i \in 1..Len(gs) }

---------------------------------------------------------------------------
(* One script run per action: a single session *)

NoChange ==
    [op |-> "none", id |-> "", name |-> << >>, text |-> << >>,
     date |-> StartDate, status |-> "", now |-> StartDate]

InitUI ==
    /\ choice = "Submit Grievance"
    /\ notice = ""
    /\ saved = FALSE

InitSessions ==
    /\ grievances = [s \in Sessions |-> << >>]
    /\ pc = [s \in Sessions |-> "idle"]
    /\ base = [s \in Sessions |-> [loaded |-> << >>, saves |-> 0]]
    /\ change = [s \in Sessions |-> NoChange]
    /\ saveOrder = << >>

InitCall ==
    /\ grievance = NewRecord("1a2b3c4d", Asha, Again, StartDate)
    /\ returned = << >>

\* no grievances.json yet, the script just started on "Submit Grievance"
Init ==
    /\ grievances_json = << >>
    /\ today = StartDate
    /\ InitUI
    /\ InitSessions
    /\ InitCall

\* the form of "Submit Grievance" is submitted
SubmitGrievance(grievance_id, name, grievance_text, grievance_date) ==
    LET run == SubmitRun(load_grievances, grievance_id, name, grievance_text,
                         grievance_date)
    IN  /\ choice' = "Submit Grievance"
        /\ grievances_json' = IF run.saved
                              THEN save_grievances(grievances_json, run.grievances)
                              ELSE grievances_json
        /\ saved' = run.saved
        /\ notice' = run.notice
        /\ UNCHANGED << today, sessionVars, callVars >>

\* "Admin Panel" is opened: the dashboard, or the note that there is nothing yet
AdminPanel ==
    /\ choice' = "Admin Panel"
    /\ notice' = IF load_grievances # << >>
                 THEN "Admin Dashboard"
                 ELSE "No grievances available yet."
    /\ saved' = FALSE
    /\ UNCHANGED << grievances_json, today, sessionVars, callVars >>

\* "Update Status" is pressed in the admin panel
UpdateStatus(selected_id, new_status) ==
    /\ load_grievances # << >>
    /\ selected_id \in OfferedIDs(load_grievances)
    /\ LET run == UpdateRun(load_grievances, selected_id, new_status, today)
       IN  /\ choice' = "Admin Panel"
           /\ grievances_json' = save_grievances(grievances_json, run.grievances)
           /\ saved' = run.saved
           /\ notice' = run.notice
    /\ UNCHANGED << today, sessionVars, callVars >>

\* "Track History" with a name typed in (or none)
TrackHistory(name) ==
    LET gs == load_grievances
        records == SelectSeq(gs, LAMBDA g : lower(g.Name) = lower(name))
    IN  /\ choice' = "Track History"
        /\ notice' = IF name = << >> THEN "Track Your Grievance"
                     ELSE IF records # << >> THEN "records"
                     ELSE "No records found."
        /\ saved' = FALSE
        /\ UNCHANGED << grievances_json, today, sessionVars, callVars >>

\* "Submit Feedback" is pressed in "Feedback & Reopen"
Feedback(name, feedback) ==
    /\ choice' = "Feedback & Reopen"
    /\ notice' = IF name # << >> /\ feedback # << >>
                 THEN "Feedback noted. Concern will be reviewed again."
                 ELSE "Please fill in all fields."
    /\ saved' = FALSE
    /\ UNCHANGED << grievances_json, today, sessionVars, callVars >>

\* midnight passes
Tick ==
    /\ DaysBetween(today, StartDate) < MaxDays
    /\ today' = tomorrow(today)
    /\ UNCHANGED << grievances_json, uiVars, sessionVars, callVars >>

Submit ==
    /\ Len(grievances_json) < MaxRecords
    /\ \E grievance_id \in IDs, name \in Names, grievance_text \in TextInputs,
          grievance_date \in FormDates(today) :
            SubmitGrievance(grievance_id, name, grievance_text, grievance_date)

Update == \E selected_id \in IDs, new_status \in Statuses :
              UpdateStatus(selected_id, new_status)

Track == \E name \in SearchInputs : TrackHistory(name)

GiveFeedback == \E name \in Names, feedback \in FeedbackInputs : Feedback(name, feedback)

Next == Submit \/ AdminPanel \/ Update \/ Track \/ GiveFeedback \/ Tick

Spec == Init /\ [][Next]_vars

---------------------------------------------------------------------------
(* The scorer on its own: one submission of each text to an empty store *)

ScoreSubmit ==
    /\ grievances_json = << >>
    /\ \E grievance_id \in IDs, grievance_text \in Texts :
            SubmitGrievance(grievance_id, Asha, grievance_text, today)

ScoreNext == ScoreSubmit

ScoreSpec == Init /\ [][ScoreNext]_vars

---------------------------------------------------------------------------
(* The escalation rule on its own: auto_escalate called on any record *)

\* the oldest record handed to auto_escalate, in days
MaxAge == 5

\* dates from tomorrow back to MaxAge days ago
CallDates == { tomorrow(StartDate) } \cup { DaysAgo(StartDate, n) : n \in 0..MaxAge }

CallInputs ==
    { [NewRecord(id, Asha, Again, date) EXCEPT !.Status = status, !.Escalated = esc] :
        id \in IDs, date \in CallDates, status \in Statuses, esc \in {"Yes", "No"} }

EscInit ==
    /\ grievances_json = << >>
    /\ today = StartDate
    /\ InitUI
    /\ InitSessions
    /\ grievance \in CallInputs
    /\ returned = << >>

AutoEscalateCall ==
    LET call == auto_escalate(grievance, today)
    IN  /\ grievance' = call.grievance
        /\ returned' = << call.ret >>
        /\ UNCHANGED << grievances_json, today, uiVars, sessionVars >>

EscNext == AutoEscalateCall

EscSpec == EscInit /\ [][EscNext]_vars

---------------------------------------------------------------------------
(* Two sessions: each script run loads, then changes its list and saves.
   Each session runs the script once; what its browser shows is left out. *)

\* the store before the sessions start: empty, or holding one submission
SeedCollections ==
    { << >> } \cup
    { << NewRecord("1a2b3c4d", Asha, Again, date) >> : date \in FormDates(StartDate) }

ConcInit ==
    /\ grievances_json \in SeedCollections
    /\ today = StartDate
    /\ InitUI
    /\ InitSessions
    /\ InitCall

\* line 96: grievances = load_grievances()
Load(s) ==
    /\ pc[s] = "idle"
    /\ grievances' = [grievances EXCEPT ![s] = load_grievances]
    /\ base' = [base EXCEPT ![s] = [loaded |-> load_grievances,
                                    saves |-> Len(saveOrder)]]
    /\ pc' = [pc EXCEPT ![s] = "loaded"]
    /\ UNCHANGED << grievances_json, today, uiVars, change, saveOrder, callVars >>

\* the rest of a "Submit Grievance" run: append to the loaded list and save it
SessionSubmit(s, grievance_id, name, grievance_text, grievance_date) ==
    /\ pc[s] = "loaded"
    /\ LET run == SubmitRun(grievances[s], grievance_id, name, grievance_text,
                            grievance_date)
       IN  /\ grievances' = [grievances EXCEPT ![s] = run.grievances]
           /\ grievances_json' = IF run.saved
                                 THEN save_grievances(grievances_json, run.grievances)
                                 ELSE grievances_json
           /\ saveOrder' = IF run.saved THEN Append(saveOrder, s) ELSE saveOrder
    /\ change' = [change EXCEPT ![s] =
                    [op |-> "submit", id |-> grievance_id, name |-> name,
                     text |-> grievance_text, date |-> grievance_date,
                     status |-> "Pending", now |-> today]]
    /\ pc' = [pc EXCEPT ![s] = "done"]
    /\ UNCHANGED << today, uiVars, base, callVars >>

\* the rest of an "Update Status" run: change the loaded list and save it
SessionUpdate(s, selected_id, new_status) ==
    /\ pc[s] = "loaded"
    /\ grievances[s] # << >>
    /\ selected_id \in OfferedIDs(grievances[s])
    /\ LET run == UpdateRun(grievances[s], selected_id, new_status, today)
       IN  /\ grievances' = [grievances EXCEPT ![s] = run.grievances]
           /\ grievances_json' = save_grievances(grievances_json, run.grievances)
           /\ saveOrder' = Append(saveOrder, s)
    /\ change' = [change EXCEPT ![s] =
                    [op |-> "update", id |-> selected_id, name |-> << >>,
                     text |-> << >>, date |-> StartDate,
                     status |-> new_status, now |-> today]]
    /\ pc' = [pc EXCEPT ![s] = "done"]
    /\ UNCHANGED << today, uiVars, base, callVars >>

ConcLoad == \E s \in Sessions : Load(s)

ConcSubmit ==
    \E s \in Sessions, grievance_id \in IDs, name \in Names,
       grievance_text \in TextInputs, grievance_date \in FormDates(today) :
        /\ Len(grievances[s]) < MaxRecords
        /\ SessionSubmit(s, grievance_id, name, grievance_text, grievance_date)

ConcUpdate ==
    \E s \in Sessions, selected_id \in IDs, new_status \in Statuses :
        SessionUpdate(s, selected_id, new_status)

ConcNext == ConcLoad \/ ConcSubmit \/ ConcUpdate \/ Tick

ConcSpec == ConcInit /\ [][ConcNext]_vars

---------------------------------------------------------------------------
(* What the claims are stated with *)

Range(seq) == { seq[i] : i \in 1..Len(seq) }

RECURSIVE CountBack(_, _, _)
\* `day` being n days before now: how many days before now the stored date
\* lies, found by stepping back on the calendar until the day, written as
\* YYYY-MM-DD, is the stored string
CountBack(stored_date, day, n) ==
    IF stored_date = isoformat(day) THEN n
    ELSE CountBack(stored_date, yesterday(day), n + 1)

\* the age of a stored date in days (-1 for tomorrow's date, the latest the
\* model hands out)
CalendarAge(stored_date, now) == CountBack(stored_date, tomorrow(now), 0 - 1)

Stale(g) == CalendarAge(g.Date, today) > 3

\* the fields of a record other than Status and Escalated
SameButStatus(g, h) ==
    h = [g EXCEPT !.Status = h.Status, !.Escalated = h.Escalated]

StatusUpdatedNotice == "Status updated to {new_status} for ID {selected_id}"

---------------------------------------------------------------------------
(* C1: in a single session, whatever is submitted, updated, viewed or sent as
   feedback and however many days pass, a stored record whose Escalated field
   is Yes still has Escalated = Yes after the step. *)
C1_EscalatedNeverReset ==
    [][\A i \in DOMAIN grievances_json :
          (grievances_json[i].Escalated = "Yes" /\ i \in DOMAIN grievances_json')
              => grievances_json'[i].Escalated = "Yes"]_vars

\* an escalated record that staff resolved afterwards still says Escalated = Yes
C1_Witness ==
    \E i \in DOMAIN grievances_json :
        /\ grievances_json[i].Escalated = "Yes"
        /\ grievances_json[i].Status = "Resolved"
        /\ notice = StatusUpdatedNotice

(* C2: auto_escalate(record) called on a Pending record dated more than 3
   days before today sets Status = Escalated and Escalated = Yes and returns
   true; called on any other record (Resolved or Escalated whatever the date,
   Pending and at most 3 days old) it returns false and leaves the record as
   it was. *)
C2_AutoEscalate ==
    [][IF grievance.Status = "Pending" /\ CalendarAge(grievance.Date, today) > 3
       THEN /\ returned' = << TRUE >>
            /\ grievance' = [grievance EXCEPT !.Status = "Escalated",
                                              !.Escalated = "Yes"]
       ELSE /\ returned' = << FALSE >>
            /\ grievance' = grievance]_vars

\* a Pending record exactly four days old has been escalated by the call
C2_Witness ==
    /\ returned = << TRUE >>
    /\ grievance.Status = "Escalated"
    /\ grievance.Escalated = "Yes"
    /\ CalendarAge(grievance.Date, today) = 4

\* what a session's change makes of a collection
Apply(c, gs) ==
    IF c.op = "submit" THEN SubmitRun(gs, c.id, c.name, c.text, c.date).grievances
    ELSE IF c.op = "update" THEN UpdateRun(gs, c.id, c.status, c.now).grievances
    ELSE gs

\* a and b both loaded before anyone saved, then a saved, then b
Raced(a, b) ==
    /\ a # b
    /\ saveOrder = << a, b >>
    /\ base[a].saves = 0
    /\ base[b].saves = 0

(* C3: when two sessions both load the collection before either saves and then
   each applies its change and saves, the persisted collection after both
   saves is the later saver's copy: the later change applied to the collection
   as it was before the earlier save, the earlier change absent. *)
C3_LaterSaveWins ==
    \A a \in Sessions, b \in Sessions :
        Raced(a, b) =>
            /\ grievances_json = grievances[b]
            /\ grievances_json = Apply(change[b], base[a].loaded)

\* the earlier session submitted a record, the later one updated a status, and
\* the submitted record is not in the persisted collection
C3_Witness ==
    \E a \in Sessions, b \in Sessions :
        /\ Raced(a, b)
        /\ change[a].op = "submit"
        /\ change[b].op = "update"
        /\ Len(grievances[a]) = Len(base[a].loaded) + 1
        /\ \A i \in DOMAIN grievances_json : grievances_json[i].ID # change[a].id
        /\ Len(grievances_json) < Len(grievances[a])

(* C4: in a single session no step changes the ID, the Category or the
   Priority of a record already stored. *)
C4_DerivedFieldsFrozen ==
    [][\A i \in DOMAIN grievances_json :
          i \in DOMAIN grievances_json' =>
              /\ grievances_json'[i].ID = grievances_json[i].ID
              /\ grievances_json'[i].Category = grievances_json[i].Category
              /\ grievances_json'[i].Priority = grievances_json[i].Priority]_vars

\* a record that was escalated by an update, with a later submission behind it,
\* still has the category and priority of its text
C4_Witness ==
    /\ Len(grievances_json) = 2
    /\ grievances_json[1].Status = "Escalated"
    /\ grievances_json[1].Escalated = "Yes"
    /\ grievances_json[1].Category = "Water Supply"
    /\ grievances_json[1].Priority = 75

(* C5: in a single session the persisted collection never gets shorter, every
   record stays at its position (its fields other than Status and Escalated
   unchanged), and a step changes the length only if it is a valid submission,
   which adds exactly one record at the end, Pending and not escalated. *)
C5_AppendOnly ==
    [][/\ Len(grievances_json') >= Len(grievances_json)
       /\ \A i \in DOMAIN grievances_json :
              SameButStatus(grievances_json[i], grievances_json'[i])
       /\ Len(grievances_json') # Len(grievances_json) =>
              /\ \E grievance_id \in IDs, name \in Names \ { << >> },
                    grievance_text \in TextInputs \ { << >> },
                    grievance_date \in FormDates(today) :
                      SubmitGrievance(grievance_id, name, grievance_text, grievance_date)
              /\ Len(grievances_json') = Len(grievances_json) + 1
              /\ grievances_json'[Len(grievances_json')].Status = "Pending"
              /\ grievances_json'[Len(grievances_json')].Escalated = "No"
       /\ \A grievance_id \in IDs, name \in Names \ { << >> },
             grievance_text \in TextInputs \ { << >> },
             grievance_date \in FormDates(today) :
              SubmitGrievance(grievance_id, name, grievance_text, grievance_date)
                  => Len(grievances_json') = Len(grievances_json) + 1]_vars

\* two records submitted under different IDs, the first resolved since, the
\* second still as submitted: both are there, in the order of submission
C5_Witness ==
    /\ Len(grievances_json) = 2
    /\ grievances_json[1].ID = "9f8e7d6c"
    /\ grievances_json[1].Status = "Resolved"
    /\ grievances_json[2].ID = "1a2b3c4d"
    /\ grievances_json[2].Status = "Pending"
    /\ grievances_json[2].Escalated = "No"

(* C6: a step changes the Status or the Escalated field of a stored record
   only if it is a status update that selected that record's ID; so a Pending
   record older than 3 days stays Pending and not escalated through
   submissions, views, searches, feedback and passing days. *)
C6_EscalationIsLazy ==
    [][\A i \in DOMAIN grievances_json :
          (/\ i \in DOMAIN grievances_json'
           /\ \/ grievances_json'[i].Status # grievances_json[i].Status
              \/ grievances_json'[i].Escalated # grievances_json[i].Escalated)
              => \E new_status \in Statuses :
                     UpdateStatus(grievances_json[i].ID, new_status)]_vars

\* a Pending record older than 3 days, not escalated, with a later submission
\* stored behind it and a feedback just sent
C6_Witness ==
    /\ Len(grievances_json) = 2
    /\ grievances_json[1].Status = "Pending"
    /\ grievances_json[1].Escalated = "No"
    /\ Stale(grievances_json[1])
    /\ choice = "Feedback & Reopen"
    /\ notice = "Feedback noted. Concern will be reviewed again."

(* C7: a submission whose Name or Text is empty shows the warning, does not
   call save and leaves the persisted collection as it was. *)
C7_EmptySubmissionRejected ==
    [][\A grievance_id \in IDs, name \in Names, grievance_text \in TextInputs,
          grievance_date \in FormDates(today) :
          (/\ name = << >> \/ grievance_text = << >>
           /\ SubmitGrievance(grievance_id, name, grievance_text, grievance_date))
              => /\ grievances_json' = grievances_json
                 /\ saved' = FALSE
                 /\ notice' = "Please fill in all fields."]_vars

\* the warning is on screen after a submission, and the record stored before
\* it is all the store holds
C7_Witness ==
    /\ choice = "Submit Grievance"
    /\ notice = "Please fill in all fields."
    /\ saved = FALSE
    /\ Len(grievances_json) = 1

\* how many keywords of a list occur in the lowercased text
Hits(keywords, text) ==
    Cardinality({ word \in Range(keywords) : Contains(word, lower(text)) })

Repeat(text) ==
    IF Contains(NotResolved, lower(text)) \/ Contains(Again, lower(text)) THEN 1 ELSE 0

Weighted(text) ==
    50 + 40 * Hits(urgent_keywords, text) + 20 * Hits(medium_keywords, text)
       + 5 * Hits(low_keywords, text) + 25 * Repeat(text)

(* C8: the Priority stored for a text is min(100, 50 + 40u + 20m + 5l + 25r),
   u, m, l being the numbers of urgent, medium and low keywords that occur in
   the lowercased text and r being 1 if it contains "not resolved" or "again",
   else 0; so it lies between 50 and 100. *)
C8_ScoreFormula ==
    \A i \in DOMAIN grievances_json :
        /\ grievances_json[i].Priority = Min(100, Weighted(grievances_json[i].Text))
        /\ grievances_json[i].Priority \in 50..100

\* a stored text with a keyword of two lists in it, whose weights pass 100
C8_Witness ==
    \E i \in DOMAIN grievances_json :
        /\ Hits(urgent_keywords, grievances_json[i].Text) >= 1
        /\ Hits(medium_keywords, grievances_json[i].Text) >= 1
        /\ Weighted(grievances_json[i].Text) > 100
        /\ grievances_json[i].Priority = 100

NoListedKeyword(text) ==
    /\ Hits(urgent_keywords, text) = 0
    /\ Hits(medium_keywords, text) = 0
    /\ Hits(low_keywords, text) = 0

(* C9 as stated: a text in which no keyword of the urgent, medium or low list
   occurs is scored 50. *)
C9_Original ==
    \A i \in DOMAIN grievances_json :
        NoListedKeyword(grievances_json[i].Text) => grievances_json[i].Priority = 50

(* C9, amended: a text in which no keyword of the urgent, medium or low list
   occurs, and neither "not resolved" nor "again", is scored 50. *)
C9_Amended ==
    \A i \in DOMAIN grievances_json :
        (NoListedKeyword(grievances_json[i].Text) /\ Repeat(grievances_json[i].Text) = 0)
            => grievances_json[i].Priority = 50

\* a stored text of two words, none of them listed, scored 50
C9_Witness ==
    \E i \in DOMAIN grievances_json :
        /\ Len(split(grievances_json[i].Text)) = 2
        /\ NoListedKeyword(grievances_json[i].Text)
        /\ Repeat(grievances_json[i].Text) = 0
        /\ grievances_json[i].Priority = 50

(* C10: a status update that selects ID i and status s leaves every record
   with another ID as it was and, in every record with ID i, sets Status to s
   and leaves Escalated alone, unless s is Pending and the record is more than
   3 days old: then Status becomes Escalated and Escalated becomes Yes,
   whatever Status was stored before. *)
C10_UpdateThenEscalate ==
    [][\A selected_id \in IDs, new_status \in Statuses :
          UpdateStatus(selected_id, new_status) =>
              /\ Len(grievances_json') = Len(grievances_json)
              /\ \A i \in DOMAIN grievances_json :
                     LET g == grievances_json[i]
                         escalates == new_status = "Pending" /\ Stale(g)
                     IN  grievances_json'[i] =
                             IF g.ID # selected_id THEN g
                             ELSE IF escalates
                                  THEN [g EXCEPT !.Status = "Escalated",
                                                 !.Escalated = "Yes"]
                                  ELSE [g EXCEPT !.Status = new_status]]_vars

\* an update has just escalated one record while a record of another ID, as
\* old and still Pending, is untouched
C10_Witness ==
    /\ notice = StatusUpdatedNotice
    /\ \E i \in DOMAIN grievances_json, j \in DOMAIN grievances_json :
           /\ grievances_json[i].ID # grievances_json[j].ID
           /\ grievances_json[i].Status = "Escalated"
           /\ grievances_json[i].Escalated = "Yes"
           /\ grievances_json[j].Status = "Pending"
           /\ grievances_json[j].Escalated = "No"
           /\ Stale(grievances_json[j])

=============================================================================
